---------------------------- MODULE Spec2Model ----------------------------
(* Model of the image OCR control layer of kreuzberg:                      *)
(*   - kreuzberg/_multiprocessing/sync_paddleocr.py: the threaded batch    *)
(*     runner process_batch_images_threaded over process_image_sync_pure;  *)
(*   - kreuzberg/_extractors/_base.py: Extractor._process_images_with_ocr  *)
(*     with deduplication, the memory filter, gating and batched dispatch. *)
(* A Python str is modelled as a sequence of fragments, so that an         *)
(* f-string is a concatenation; a dict is a set of <<key, value>> pairs;   *)
(* list indices are 1-based here and 0-based in the source.                *)
EXTENDS Integers, Sequences, FiniteSets, TLC

VARIABLES
    cpu,              \* multiprocessing.cpu_count() of the host
    paddle_installed, \* whether "import paddleocr" succeeds
    tpc,              \* position of a process_batch_images_threaded call
    image_paths,      \* its argument image_paths
    max_workers_arg,  \* its argument max_workers: {} is None, {n} is n
    pool_size,        \* ThreadPoolExecutor._max_workers
    futures,          \* future id -> [state, outcome]
    results,          \* the pre-sized result list
    collected,        \* futures yielded by as_completed so far, in that order
    escaped,          \* the exception that left the call, if any
    backend_installed,\* whether get_ocr_backend finds the backend's library
    config,           \* Extractor.config (ExtractionConfig)
    dpc,              \* position of a _process_images_with_ocr call
    images_arg,       \* its argument images
    images,           \* the local images after lines 171-172
    examined,         \* the images the gating loop has looked at, in order
    d_results,        \* the local results (named apart from the runner's)
    tasks,            \* the images of the coroutines in the local tasks
    batch_size,       \* the local batch
    units,            \* task index -> [state, outcome] of its _ocr_one
    batch_start,      \* first task index of the batch being awaited
    gathered,         \* what run_taskgroup_batched has collected so far
    backend_lookups,  \* number of get_ocr_backend calls
    ocr_invoked,      \* task indices whose backend.process_image was called
    overtaken,        \* whether a unit has ended before one submitted earlier
    d_escaped,        \* the exception that left the call, if any
    ocr_cfg,          \* the local cfg of line 205: {} before it is set, else {cfg}
    spc,              \* position of a process_batch_images_sync_pure call
    s_paths,          \* its argument image_paths
    s_results,        \* its local results
    s_escaped,        \* the exception that left the call, if any
    fn_pc,            \* which function of _base.py has been applied to fn_images
    fn_images,        \* the image list the function is applied to
    fn_out,           \* what the function returned
    fn_again,         \* what it returned when applied to fn_out
    q_pc,             \* position of an _apply_quality_processing call
    q_result,         \* its argument result
    q_out,            \* the result it returned
    q_calls,          \* the collaborators and methods it has called, in order
    bpc,              \* position of a process_image_bytes_sync_pure call
    b_bytes,          \* its image_bytes argument
    b_path,           \* tmp_image.name, the file NamedTemporaryFile created for it
    tmp_files,        \* the files that exist in the temporary directory
    b_outcome         \* what the call returned or raised

tvars == <<tpc, image_paths, max_workers_arg, pool_size, futures, results,
           collected, escaped>>

dvars == <<backend_installed, config, dpc, images_arg, images, examined,
           d_results, tasks, batch_size, units, batch_start, gathered,
           backend_lookups, ocr_invoked, overtaken, d_escaped, ocr_cfg>>

svars == <<spc, s_paths, s_results, s_escaped>>

fvars == <<fn_pc, fn_images, fn_out, fn_again>>

env == <<cpu, paddle_installed>>

qvars == <<q_pc, q_result, q_out, q_calls>>

bvars == <<bpc, b_bytes, b_path, tmp_files, b_outcome>>

vars == <<env, tvars, dvars, svars, fvars, qvars, bvars>>

-----------------------------------------------------------------------------
(* Bounds *)

MaxCpu == 2
MaxPaths == 3

Paths == {"a.png", "b.png"}

SeqsUpTo(S, n) == UNION {[1..k -> S] : k \in 0..n}

Min(a, b) == IF a <= b THEN a ELSE b
Max(a, b) == IF a >= b THEN a ELSE b

-----------------------------------------------------------------------------
(* Values *)

PLAIN_TEXT_MIME_TYPE == "text/plain"

NoException == [type |-> "<none>", msg |-> <<>>]

\* ExtractionResult(content, mime_type, metadata, chunks)
ExtractionResult(content, mime_type, metadata) ==
    [content |-> content, mime_type |-> mime_type, metadata |-> metadata,
     chunks |-> <<>>]

\* the None that fills [None] * len(image_paths)
NoneResult == [content |-> <<"<None>">>, mime_type |-> "<None>",
               metadata |-> {}, chunks |-> <<>>]

Returned(r) == [kind |-> "return", result |-> r, exc |-> NoException]
Raised(e) == [kind |-> "raise", result |-> NoneResult, exc |-> e]
NoOutcome == [kind |-> "<none>", result |-> NoneResult, exc |-> NoException]

-----------------------------------------------------------------------------
(* sync_paddleocr.py *)

\* What ocr_instance.ocr(path) may do: no text region, some text, or raise.
OcrBehaviours == {"no_text", "text", "raise"}

GetPaddleocrInstance(installed) ==
    IF installed
    THEN Returned(NoneResult)
    ELSE Raised([type |-> "MissingDependencyError",
                 msg |-> <<"PaddleOCR is not installed. Install it with: pip install paddleocr">>])

ProcessImageSyncPure(path, installed, behaviour) ==
    LET inst == GetPaddleocrInstance(installed)
        wrap(e) == Raised([type |-> "OCRError",
                           msg |-> <<"PaddleOCR processing failed: ">> \o e.msg])
    IN  IF inst.kind = "raise" THEN wrap(inst.exc)
        ELSE CASE behaviour = "raise" ->
                    wrap([type |-> "RuntimeError", msg |-> <<"cannot read ", path>>])
               [] behaviour = "no_text" ->
                    Returned(ExtractionResult(<<>>, PLAIN_TEXT_MIME_TYPE, {}))
               [] OTHER ->
                    Returned(ExtractionResult(<<"text of ", path>>, PLAIN_TEXT_MIME_TYPE,
                                              {<<"confidence", <<"avg of ", path>> >>}))

\* max_workers = min(len(image_paths), mp.cpu_count()) when None
EffectiveMaxWorkers(arg, paths, ncpu) ==
    IF arg = {} THEN Min(Len(paths), ncpu) ELSE CHOOSE n \in arg : TRUE

\* {executor.submit(...): i for i, path in enumerate(image_paths)}
FutureToIndex(paths) == [f \in 1..Len(paths) |-> f]

\* ErrorResult as it would be without the error in the metadata
ErrorResultNoMetadata(e) ==
    ExtractionResult(<<"Error: ">> \o e.msg, PLAIN_TEXT_MIME_TYPE, {})

\* the except branch of the as_completed loop
ErrorResult(e) ==
    ExtractionResult(<<"Error: ">> \o e.msg, PLAIN_TEXT_MIME_TYPE, {<<"error", e.msg>>})

\* results[index] = future.result(), or the error-marked result
CollectedResult(outcome) ==
    IF outcome.kind = "return" THEN outcome.result ELSE ErrorResult(outcome.exc)

\* worker threads inside a call: one that will end ("running") or one whose
\* ocr_instance.ocr never returns ("hung")
NumRunning == Cardinality({f \in DOMAIN futures : futures[f].state \in {"running", "hung"}})
NumHung == Cardinality({f \in DOMAIN futures : futures[f].state = "hung"})
Queued == {f \in DOMAIN futures : futures[f].state = "queued"}

\* lines 230-238: the pool is built, every task submitted, results pre-sized.
\* ThreadPoolExecutor(max_workers) raises ValueError when max_workers <= 0.
ThreadedCallWith(paths, arg) ==
    /\ tpc = "idle"
    /\ LET mw == EffectiveMaxWorkers(arg, paths, cpu) IN
         /\ image_paths' = paths
         /\ max_workers_arg' = arg
         /\ IF mw <= 0
            THEN /\ tpc' = "raised"
                 /\ escaped' = [type |-> "ValueError",
                                msg |-> <<"max_workers must be greater than 0">>]
                 /\ UNCHANGED <<pool_size, futures, results>>
            ELSE /\ tpc' = "running"
                 /\ pool_size' = mw
                 /\ futures' = [f \in 1..Len(paths) |->
                                  [state |-> "queued", outcome |-> NoOutcome]]
                 /\ results' = [i \in 1..Len(paths) |-> NoneResult]
                 /\ UNCHANGED escaped
    /\ UNCHANGED <<cpu, paddle_installed, collected, dvars, svars, fvars, qvars, bvars>>

ThreadedCall ==
    \E paths \in SeqsUpTo(Paths, MaxPaths), arg \in {{}} \cup {{n} : n \in 0..MaxCpu} :
        ThreadedCallWith(paths, arg)

\* TaskStart as it would be if every submitted task got a thread of its own
TaskStartUnbounded ==
    /\ tpc = "running"
    /\ Queued # {}
    /\ \E hangs \in BOOLEAN :
         LET f == CHOOSE g \in Queued : \A h \in Queued : g <= h IN
         futures' = [futures EXCEPT ![f].state = IF hangs THEN "hung" ELSE "running"]
    /\ UNCHANGED <<cpu, paddle_installed, tpc, image_paths, max_workers_arg,
                   pool_size, results, collected, escaped, dvars, svars, fvars, qvars, bvars>>

\* TaskStart as it would be if a hung call kept the other workers from
\* taking work
TaskStartUnlessHung ==
    /\ tpc = "running"
    /\ Queued # {}
    /\ NumRunning < pool_size
    /\ NumHung = 0
    /\ \E hangs \in BOOLEAN :
         LET f == CHOOSE g \in Queued : \A h \in Queued : g <= h IN
         futures' = [futures EXCEPT ![f].state = IF hangs THEN "hung" ELSE "running"]
    /\ UNCHANGED <<cpu, paddle_installed, tpc, image_paths, max_workers_arg,
                   pool_size, results, collected, escaped, dvars, svars, fvars, qvars, bvars>>

\* a free worker thread takes the oldest queued work item and enters
\* process_image_sync_pure; the OCR call in it is one that ends or one that
\* never returns (no timeout is set anywhere)
TaskStart ==
    /\ tpc = "running"
    /\ Queued # {}
    /\ NumRunning < pool_size
    /\ \E hangs \in BOOLEAN :
         LET f == CHOOSE g \in Queued : \A h \in Queued : g <= h IN
         futures' = [futures EXCEPT ![f].state = IF hangs THEN "hung" ELSE "running"]
    /\ UNCHANGED <<cpu, paddle_installed, tpc, image_paths, max_workers_arg,
                   pool_size, results, collected, escaped, dvars, svars, fvars, qvars, bvars>>

\* process_image_sync_pure(path, config) returns or raises in its worker
TaskFinish ==
    /\ tpc = "running"
    /\ \E f \in DOMAIN futures, b \in OcrBehaviours :
         /\ futures[f].state = "running"
         /\ futures' = [futures EXCEPT ![f] =
                [state |-> "done",
                 outcome |-> ProcessImageSyncPure(image_paths[f], paddle_installed, b)]]
    /\ UNCHANGED <<cpu, paddle_installed, tpc, image_paths, max_workers_arg,
                   pool_size, results, collected, escaped, dvars, svars, fvars, qvars, bvars>>

\* Collect as it would be if the index were looked up by the task's path
CollectByPath ==
    /\ tpc = "running"
    /\ \E f \in DOMAIN futures :
         /\ futures[f].state = "done"
         /\ \A j \in 1..Len(collected) : collected[j] # f
         /\ results' = [results EXCEPT
                ![CHOOSE i \in DOMAIN image_paths : /\ image_paths[i] = image_paths[f]
                                                    /\ \A j \in 1..(i - 1) :
                                                          image_paths[j] # image_paths[f]] =
                    CollectedResult(futures[f].outcome)]
         /\ collected' = Append(collected, f)
    /\ UNCHANGED <<cpu, paddle_installed, tpc, image_paths, max_workers_arg,
                   pool_size, futures, escaped, dvars, svars, fvars, qvars, bvars>>

\* Collect as it would be with results filled in completion order
CollectInCompletionOrder ==
    /\ tpc = "running"
    /\ \E f \in DOMAIN futures :
         /\ futures[f].state = "done"
         /\ \A j \in 1..Len(collected) : collected[j] # f
         /\ results' = [results EXCEPT
                ![Len(collected) + 1] = CollectedResult(futures[f].outcome)]
         /\ collected' = Append(collected, f)
    /\ UNCHANGED <<cpu, paddle_installed, tpc, image_paths, max_workers_arg,
                   pool_size, futures, escaped, dvars, svars, fvars, qvars, bvars>>

\* one iteration of "for future in as_completed(future_to_index)"
Collect ==
    /\ tpc = "running"
    /\ \E f \in DOMAIN futures :
         /\ futures[f].state = "done"
         /\ \A j \in 1..Len(collected) : collected[j] # f
         /\ results' = [results EXCEPT
                ![FutureToIndex(image_paths)[f]] =
                    CollectedResult(futures[f].outcome)]
         /\ collected' = Append(collected, f)
    /\ UNCHANGED <<cpu, paddle_installed, tpc, image_paths, max_workers_arg,
                   pool_size, futures, escaped, dvars, svars, fvars, qvars, bvars>>

\* ThreadedReturn as it would be if the call returned on its first result
ThreadedReturnOnFirstResult ==
    /\ tpc = "running"
    /\ Len(collected) >= 1 \/ Len(futures) = 0
    /\ tpc' = "returned"
    /\ UNCHANGED <<cpu, paddle_installed, image_paths, max_workers_arg,
                   pool_size, futures, results, collected, escaped, dvars, svars, fvars, qvars, bvars>>

\* the loop is exhausted, the with block shuts the pool down, results returned
ThreadedReturn ==
    /\ tpc = "running"
    /\ Len(collected) = Len(futures)
    /\ tpc' = "returned"
    /\ UNCHANGED <<cpu, paddle_installed, image_paths, max_workers_arg,
                   pool_size, futures, results, collected, escaped, dvars, svars, fvars, qvars, bvars>>

TNext == ThreadedCall \/ TaskStart \/ TaskFinish \/ Collect \/ ThreadedReturn

-----------------------------------------------------------------------------
(* sync_paddleocr.py: process_batch_images_sync_pure *)

\* results = [] and the loop is entered
SequentialCall ==
    /\ spc = "idle"
    /\ \E paths \in SeqsUpTo(Paths, MaxPaths) : s_paths' = paths
    /\ spc' = "running"
    /\ s_results' = <<>>
    /\ UNCHANGED <<env, tvars, dvars, s_escaped, fvars, qvars, bvars>>

\* one iteration of "for image_path in image_paths": the call of
\* process_image_sync_pure stands in no try, so what it raises leaves the loop
\* and the function
SequentialStep ==
    /\ spc = "running"
    /\ Len(s_results) < Len(s_paths)
    /\ \E b \in OcrBehaviours :
         LET outcome == ProcessImageSyncPure(s_paths[Len(s_results) + 1],
                                             paddle_installed, b)
         IN  IF outcome.kind = "raise"
             THEN /\ spc' = "raised"
                  /\ s_escaped' = outcome.exc
                  /\ UNCHANGED s_results
             ELSE /\ s_results' = Append(s_results, outcome.result)
                  /\ UNCHANGED <<spc, s_escaped>>
    /\ UNCHANGED <<env, tvars, dvars, s_paths, fvars, qvars, bvars>>

\* the loop is exhausted: return results
SequentialReturn ==
    /\ spc = "running"
    /\ Len(s_results) = Len(s_paths)
    /\ spc' = "returned"
    /\ UNCHANGED <<env, tvars, dvars, s_paths, s_results, s_escaped, fvars, qvars, bvars>>

SNext == SequentialCall \/ SequentialStep \/ SequentialReturn

SIdle ==
    /\ spc = "idle"
    /\ s_paths = <<>>
    /\ s_results = <<>>
    /\ s_escaped = NoException

-----------------------------------------------------------------------------
(* _base.py: values *)

MaxImages == 3
\* the longest image list handed to the memory filter on its own
MaxFilterImages == 4

MiB == 1024 * 1024
MAX_TOTAL_IMAGE_SIZE == 100 * 1024 * 1024
MAX_SINGLE_IMAGE_SIZE == 50 * 1024 * 1024

NoneStr == "<None>"

\* img.data: the bytes are named by a tag; len(img.data) is carried along
Bytes(tag, len) == [tag |-> tag, len |-> len]

\* zlib.crc32(data) & 0xFFFFFFFF: a 32-bit checksum of the bytes. Distinct
\* byte strings may collide: "C" and "c" stand for such a pair.
Crc32(data) ==
    CASE data.tag = "A" -> 1554254475
      [] data.tag = "B" -> 1255198513
      [] data.tag = "C" -> 1037565863
      [] data.tag = "c" -> 1037565863
      [] OTHER -> 743272264

\* str.lower() on the format tags in use
Lower(fmt) ==
    CASE fmt = "PNG" -> "png"
      [] fmt = "Gif" -> "gif"
      [] OTHER -> fmt

\* ExtractedImage(data, format, filename, dimensions); dimensions None is {}
ExtractedImage(data, format, filename, dimensions) ==
    [data |-> data, format |-> format, filename |-> filename,
     dimensions |-> dimensions]

\* the placeholder ocr_result of a skipped outcome
EmptyOcrResult == [content |-> <<>>, mime_type |-> "text/plain", metadata |-> {}]

\* ImageOCRResult(image, ocr_result, skipped_reason=...): time and score unset
SkippedOutcome(img, reason) ==
    [image |-> img, ocr_result |-> EmptyOcrResult, confidence_score |-> {},
     processing_time |-> {}, skipped_reason |-> {reason}]

\* ImageOCRResult(image, ocr_result, confidence_score=None, processing_time)
AttemptedOutcome(img, ocr_res) ==
    [image |-> img, ocr_result |-> ocr_res, confidence_score |-> {},
     processing_time |-> {"duration"}, skipped_reason |-> {}]

NoUnitOutcome == SkippedOutcome(ExtractedImage(Bytes("", 0), "", NoneStr, {}), <<"<none>">>)

-----------------------------------------------------------------------------
(* _base.py: deduplication and the memory filter *)

RECURSIVE DedupFromLastKept(_, _, _)
\* DedupFrom as it would be if the last image of each checksum were kept
DedupFromLastKept(imgs, i, seen) ==
    IF i > Len(imgs) THEN <<>>
    ELSE LET h == Crc32(imgs[i].data) IN
         IF \A j \in (i + 1)..Len(imgs) : Crc32(imgs[j].data) # h
         THEN <<imgs[i]>> \o DedupFromLastKept(imgs, i + 1, seen \cup {h})
         ELSE DedupFromLastKept(imgs, i + 1, seen)

RECURSIVE DedupFromForgetful(_, _, _)
\* DedupFrom as it would be if a dropped duplicate cleared its checksum
DedupFromForgetful(imgs, i, seen) ==
    IF i > Len(imgs) THEN <<>>
    ELSE LET h == Crc32(imgs[i].data) IN
         IF h \notin seen
         THEN <<imgs[i]>> \o DedupFromForgetful(imgs, i + 1, seen \cup {h})
         ELSE DedupFromForgetful(imgs, i + 1, seen \ {h})

RECURSIVE DedupFrom(_, _, _)
\* the loop of _deduplicate_images from position i with seen_hashes = seen
DedupFrom(imgs, i, seen) ==
    IF i > Len(imgs) THEN <<>>
    ELSE LET h == Crc32(imgs[i].data) IN
         IF h \notin seen
         THEN <<imgs[i]>> \o DedupFrom(imgs, i + 1, seen \cup {h})
         ELSE DedupFrom(imgs, i + 1, seen)

DeduplicateImages(cfg, imgs) ==
    IF ~cfg.deduplicate_images \/ Len(imgs) = 0 THEN imgs
    ELSE DedupFrom(imgs, 1, {})

RECURSIVE TotalSize(_)
TotalSize(imgs) ==
    IF Len(imgs) = 0 THEN 0 ELSE Head(imgs).data.len + TotalSize(Tail(imgs))

\* InsertBySize as it would be if x went in front of the elements of its size
InsertBySizeBeforeEqual(sorted, x) ==
    LET k == Cardinality({j \in 1..Len(sorted) : sorted[j].data.len < x.data.len})
    IN  SubSeq(sorted, 1, k) \o <<x>> \o SubSeq(sorted, k + 1, Len(sorted))

\* insert x behind every element that is not larger: a stable insertion
InsertBySize(sorted, x) ==
    LET k == Cardinality({j \in 1..Len(sorted) : sorted[j].data.len <= x.data.len})
    IN  SubSeq(sorted, 1, k) \o <<x>> \o SubSeq(sorted, k + 1, Len(sorted))

RECURSIVE SortedBySize(_)
\* sorted(images, key=lambda x: len(x.data)), which is stable
SortedBySize(imgs) ==
    IF Len(imgs) = 0 THEN <<>>
    ELSE InsertBySize(SortedBySize(SubSeq(imgs, 1, Len(imgs) - 1)), imgs[Len(imgs)])

RECURSIVE GreedyFromBelowSingle(_, _, _)
\* GreedyFrom as it would be if an image at the single-image limit were skipped
GreedyFromBelowSingle(sorted, i, cur) ==
    IF i > Len(sorted) THEN <<>>
    ELSE LET sz == sorted[i].data.len IN
         IF sz >= MAX_SINGLE_IMAGE_SIZE THEN GreedyFromBelowSingle(sorted, i + 1, cur)
         ELSE IF cur + sz <= MAX_TOTAL_IMAGE_SIZE
              THEN <<sorted[i]>> \o GreedyFromBelowSingle(sorted, i + 1, cur + sz)
              ELSE GreedyFromBelowSingle(sorted, i + 1, cur)

RECURSIVE GreedyFromBelowTotal(_, _, _)
\* GreedyFrom as it would be if a running total equal to the limit were refused
GreedyFromBelowTotal(sorted, i, cur) ==
    IF i > Len(sorted) THEN <<>>
    ELSE LET sz == sorted[i].data.len IN
         IF sz > MAX_SINGLE_IMAGE_SIZE THEN GreedyFromBelowTotal(sorted, i + 1, cur)
         ELSE IF cur + sz < MAX_TOTAL_IMAGE_SIZE
              THEN <<sorted[i]>> \o GreedyFromBelowTotal(sorted, i + 1, cur + sz)
              ELSE GreedyFromBelowTotal(sorted, i + 1, cur)

RECURSIVE GreedyFromNoTotal(_, _, _)
\* GreedyFrom as it would be without the check of the running total
GreedyFromNoTotal(sorted, i, cur) ==
    IF i > Len(sorted) THEN <<>>
    ELSE LET sz == sorted[i].data.len IN
         IF sz > MAX_SINGLE_IMAGE_SIZE THEN GreedyFromNoTotal(sorted, i + 1, cur)
         ELSE <<sorted[i]>> \o GreedyFromNoTotal(sorted, i + 1, cur + sz)

RECURSIVE GreedyFrom(_, _, _)
\* the loop over sorted_images from position i with current_size = cur
GreedyFrom(sorted, i, cur) ==
    IF i > Len(sorted) THEN <<>>
    ELSE LET sz == sorted[i].data.len IN
         IF sz > MAX_SINGLE_IMAGE_SIZE THEN GreedyFrom(sorted, i + 1, cur)
         ELSE IF cur + sz <= MAX_TOTAL_IMAGE_SIZE
              THEN <<sorted[i]>> \o GreedyFrom(sorted, i + 1, cur + sz)
              ELSE GreedyFrom(sorted, i + 1, cur)

\* CheckImageMemoryLimits as it would be if a total equal to the limit took
\* the sorting branch
CheckImageMemoryLimitsAtLimit(imgs) ==
    IF Len(imgs) = 0 THEN <<>>
    ELSE IF TotalSize(imgs) >= MAX_TOTAL_IMAGE_SIZE
         THEN GreedyFrom(SortedBySize(imgs), 1, 0)
         ELSE SelectSeq(imgs, LAMBDA img : ~(img.data.len > MAX_SINGLE_IMAGE_SIZE))

CheckImageMemoryLimits(imgs) ==
    IF Len(imgs) = 0 THEN <<>>
    ELSE IF TotalSize(imgs) > MAX_TOTAL_IMAGE_SIZE
         THEN GreedyFrom(SortedBySize(imgs), 1, 0)
         ELSE SelectSeq(imgs, LAMBDA img : ~(img.data.len > MAX_SINGLE_IMAGE_SIZE))

-----------------------------------------------------------------------------
(* _base.py: _process_images_with_ocr *)

\* BackendName as it would be with a fallback to tesseract
BackendNameWithFallback(cfg) ==
    IF cfg.image_ocr_backend # NoneStr /\ cfg.image_ocr_backend # ""
    THEN cfg.image_ocr_backend
    ELSE IF cfg.ocr_backend # NoneStr THEN cfg.ocr_backend ELSE "tesseract"

\* self.config.image_ocr_backend or self.config.ocr_backend
BackendName(cfg) ==
    IF cfg.image_ocr_backend # NoneStr /\ cfg.image_ocr_backend # ""
    THEN cfg.image_ocr_backend
    ELSE cfg.ocr_backend

\* dict.update: the entries of e replace and extend those of d
Update(d, e) ==
    [k \in (DOMAIN d) \cup (DOMAIN e) |-> IF k \in DOMAIN e THEN e[k] ELSE d[k]]

\* d[key] = value
SetItem(d, key, value) ==
    [k \in (DOMAIN d) \cup {key} |-> IF k = key THEN value ELSE d[k]]

\* the field defaults of the backend configuration classes: each has its own
\* tuning fields and the common use_cache
TesseractDefaults == [language |-> "eng", psm |-> 3, use_cache |-> TRUE]
EasyOCRDefaults == [language |-> "en", use_gpu |-> FALSE, use_cache |-> TRUE]
PaddleOCRDefaults == [language |-> "en", use_angle_cls |-> TRUE, use_cache |-> TRUE]

ClassDefaults(class) ==
    CASE class = "TesseractConfig" -> TesseractDefaults
      [] class = "EasyOCRConfig" -> EasyOCRDefaults
      [] OTHER -> PaddleOCRDefaults

\* Class(**given): an instance of a configuration class
OcrConfigObject(class, given) == [class |-> class, given |-> given]

\* dataclasses.asdict(obj): every field, the given ones and the defaulted ones
AsDict(obj) == Update(ClassDefaults(obj.class), obj.given)

\* ConfigForBackend as it would be without line 182/187/192: the cache flag
\* is not written after a matching override is merged
ConfigForBackendOverrideCache(cfg) ==
    LET backend_name == BackendName(cfg)
        Merged(class) ==
            Update(AsDict(OcrConfigObject(class, <<>>)), AsDict(CHOOSE o \in cfg.ocr_config : TRUE))
        IsInstance(class) == \E o \in cfg.ocr_config : o.class = class
        byName == IF backend_name = "tesseract" THEN AsDict(OcrConfigObject("TesseractConfig", <<>>))
                  ELSE IF backend_name = "easyocr" THEN AsDict(OcrConfigObject("EasyOCRConfig", <<>>))
                  ELSE AsDict(OcrConfigObject("PaddleOCRConfig", <<>>))
    IN  IF cfg.ocr_config # {} /\ backend_name = "tesseract" /\ IsInstance("TesseractConfig")
        THEN Merged("TesseractConfig")
        ELSE IF cfg.ocr_config # {} /\ backend_name = "easyocr" /\ IsInstance("EasyOCRConfig")
        THEN Merged("EasyOCRConfig")
        ELSE IF cfg.ocr_config # {} /\ backend_name = "paddleocr" /\ IsInstance("PaddleOCRConfig")
        THEN Merged("PaddleOCRConfig")
        ELSE SetItem(byName, "use_cache", cfg.use_cache)

\* ConfigForBackend as it would be if an override of any class were merged
ConfigForBackendMergeAny(cfg) ==
    LET backend_name == BackendName(cfg)
        byName == IF backend_name = "tesseract" THEN AsDict(OcrConfigObject("TesseractConfig", <<>>))
                  ELSE IF backend_name = "easyocr" THEN AsDict(OcrConfigObject("EasyOCRConfig", <<>>))
                  ELSE AsDict(OcrConfigObject("PaddleOCRConfig", <<>>))
    IN  IF cfg.ocr_config # {}
        THEN SetItem(Update(byName, AsDict(CHOOSE o \in cfg.ocr_config : TRUE)),
                     "use_cache", cfg.use_cache)
        ELSE SetItem(byName, "use_cache", cfg.use_cache)

\* _config_for_backend(): lines 178-203
ConfigForBackend(cfg) ==
    LET backend_name == BackendName(cfg)
        Merged(class) ==
            SetItem(Update(AsDict(OcrConfigObject(class, <<>>)),
                           AsDict(CHOOSE o \in cfg.ocr_config : TRUE)),
                    "use_cache", cfg.use_cache)
        IsInstance(class) == \E o \in cfg.ocr_config : o.class = class
        byName == IF backend_name = "tesseract" THEN AsDict(OcrConfigObject("TesseractConfig", <<>>))
                  ELSE IF backend_name = "easyocr" THEN AsDict(OcrConfigObject("EasyOCRConfig", <<>>))
                  ELSE AsDict(OcrConfigObject("PaddleOCRConfig", <<>>))
    IN  IF cfg.ocr_config # {} /\ backend_name = "tesseract" /\ IsInstance("TesseractConfig")
        THEN Merged("TesseractConfig")
        ELSE IF cfg.ocr_config # {} /\ backend_name = "easyocr" /\ IsInstance("EasyOCRConfig")
        THEN Merged("EasyOCRConfig")
        ELSE IF cfg.ocr_config # {} /\ backend_name = "paddleocr" /\ IsInstance("PaddleOCRConfig")
        THEN Merged("PaddleOCRConfig")
        ELSE SetItem(byName, "use_cache", cfg.use_cache)

\* GateDecision as it would be with the too-large test ahead of the too-small
GateDecisionLargeFirst(img, cfg) ==
    LET fmt == Lower(img.format)
        min_w == cfg.image_ocr_min_dimensions[1]
        min_h == cfg.image_ocr_min_dimensions[2]
        max_w == cfg.image_ocr_max_dimensions[1]
        max_h == cfg.image_ocr_max_dimensions[2]
    IN  IF fmt \notin cfg.image_ocr_formats
        THEN {<<"Unsupported format: ", img.format>>}
        ELSE IF img.dimensions # {}
             THEN LET d == CHOOSE x \in img.dimensions : TRUE
                      w == d[1]
                      h == d[2]
                  IN  IF w > max_w \/ h > max_h
                      THEN {<<"Too large: ", w, "x", h>>}
                      ELSE IF w < min_w \/ h < min_h
                           THEN {<<"Too small: ", w, "x", h>>}
                           ELSE {}
             ELSE {}

\* the decision of one pass of the gating loop: {} when the image is
\* scheduled, {reason} when it is skipped
GateDecision(img, cfg) ==
    LET fmt == Lower(img.format)
        min_w == cfg.image_ocr_min_dimensions[1]
        min_h == cfg.image_ocr_min_dimensions[2]
        max_w == cfg.image_ocr_max_dimensions[1]
        max_h == cfg.image_ocr_max_dimensions[2]
    IN  IF fmt \notin cfg.image_ocr_formats
        THEN {<<"Unsupported format: ", img.format>>}
        ELSE IF img.dimensions # {}
             THEN LET d == CHOOSE x \in img.dimensions : TRUE
                      w == d[1]
                      h == d[2]
                  IN  IF w < min_w \/ h < min_h
                      THEN {<<"Too small: ", w, "x", h>>}
                      ELSE IF w > max_w \/ h > max_h
                           THEN {<<"Too large: ", w, "x", h>>}
                           ELSE {}
             ELSE {}

\* the gating loop as it would be if a skipped image left no outcome
GatedResultsNone(imgs, cfg) == <<>>

RECURSIVE GatedResults(_, _)
\* what the gating loop appends to results
GatedResults(imgs, cfg) ==
    IF Len(imgs) = 0 THEN <<>>
    ELSE LET g == GateDecision(Head(imgs), cfg) IN
         (IF g = {} THEN <<>>
          ELSE <<SkippedOutcome(Head(imgs), CHOOSE r \in g : TRUE)>>)
         \o GatedResults(Tail(imgs), cfg)

\* the gating loop as it would be if every image were scheduled
GatedTasksAll(imgs, cfg) == imgs

\* what the gating loop appends to tasks
GatedTasks(imgs, cfg) == SelectSeq(imgs, LAMBDA img : GateDecision(img, cfg) = {})

\* BatchSize as it would be without the CPU count
BatchSizeAllTasks(ntasks, ncpu) == Max(1, ntasks)

\* batch = max(1, min(len(tasks), cpu_count()))
BatchSize(ntasks, ncpu) == Max(1, Min(ntasks, ncpu))

\* ExtendResults as it would be with the dispatched outcomes put first
ExtendResultsInFront(res, got) == got \o res

\* results.extend(await run_taskgroup_batched(...))
ExtendResults(res, got) == res \o got

\* FailedOutcome as it would be if a failure were reported as a blank attempt
FailedOutcomeAsAttempted(target, e) == AttemptedOutcome(target, EmptyOcrResult)

\* FailedOutcome as it would be without the exception's message
FailedOutcomeNoMessage(target, e) == SkippedOutcome(target, <<"OCR failed">>)

\* the outcome _ocr_one returns from its except branch
FailedOutcome(target, e) == SkippedOutcome(target, <<"OCR failed: ">> \o e.msg)

\* the outcome _ocr_one returns when the backend returned
BackendResult(target) ==
    [content |-> <<"ocr of ", target.data.tag>>, mime_type |-> "text/plain",
     metadata |-> {}]

\* Image.open(io.BytesIO(target.data)) raising on bytes that are no image
DecodeError(target) ==
    [type |-> "UnidentifiedImageError",
     msg |-> <<"cannot identify image file ", target.data.tag>>]

\* backend.process_image(pil_img, **cfg) raising
BackendError(target) ==
    [type |-> "OCRError", msg |-> <<"backend failed on ", target.data.tag>>]

\* the task indices of the batch that starts at index lo
BatchOf(lo, size, n) == {k \in 1..n : lo <= k /\ k < lo + size}

CurrentBatch == BatchOf(batch_start, batch_size, Len(tasks))

\* unit k ends while a unit submitted before it has not ended
EndsBeforeEarlier(k) == \E j \in 1..(k - 1) : units[j].state # "done"

DIdle ==
    /\ dpc = "idle"
    /\ images_arg = <<>>
    /\ images = <<>>
    /\ examined = <<>>
    /\ d_results = <<>>
    /\ tasks = <<>>
    /\ batch_size = 0
    /\ units = <<>>
    /\ batch_start = 1
    /\ gathered = <<>>
    /\ backend_lookups = 0
    /\ ocr_invoked = {}
    /\ overtaken = FALSE
    /\ d_escaped = NoException
    /\ ocr_cfg = {}

TIdle ==
    /\ tpc = "idle"
    /\ image_paths = <<>>
    /\ max_workers_arg = {}
    /\ pool_size = 0
    /\ futures = <<>>
    /\ results = <<>>
    /\ collected = <<>>
    /\ escaped = NoException

FIdle ==
    /\ fn_pc = "ready"
    /\ fn_images = <<>>
    /\ fn_out = <<>>
    /\ fn_again = <<>>

\* get_ocr_backend(backend_name): the backend object, or the failure of a
\* backend whose library is missing
GetOcrBackend(name, installed) ==
    IF installed THEN Returned(NoneResult)
    ELSE Raised([type |-> "MissingDependencyError", msg |-> <<name, " is not installed">>])

\* the images a call is given
ImagePool ==
    { ExtractedImage(Bytes("A", 20 * MiB), "png", "a.png", {}),
      ExtractedImage(Bytes("A", 20 * MiB), "png", "a-small.png", {<<10, 10>>}),
      ExtractedImage(Bytes("B", 30 * MiB), "PNG", "b.png", {<<100, 100>>}),
      ExtractedImage(Bytes("C", 1 * MiB), "gif", "c.gif", {<<100, 100>>}),
      ExtractedImage(Bytes("E", 60 * MiB), "png", NoneStr, {}) }

\* DispatchCallWith as it would be with the gating loop ahead of the lookup
DispatchCallWithLateLookup(imgs) ==
    /\ dpc = "idle"
    /\ images_arg' = imgs
    /\ IF Len(imgs) = 0 \/ ~config.ocr_extracted_images
       THEN /\ dpc' = "returned"
            /\ UNCHANGED <<images, examined, d_results, tasks, batch_size,
                           units, backend_lookups, d_escaped, ocr_cfg>>
       ELSE LET kept == CheckImageMemoryLimits(DeduplicateImages(config, imgs))
                backend_name == BackendName(config)
                backend == GetOcrBackend(backend_name, backend_installed)
                todo == GatedTasks(kept, config)
            IN  /\ images' = kept
                /\ IF backend_name = NoneStr
                   THEN /\ dpc' = "returned"
                        /\ UNCHANGED <<examined, d_results, tasks, batch_size,
                                       units, backend_lookups, d_escaped, ocr_cfg>>
                   ELSE /\ ocr_cfg' = {ConfigForBackend(config)}
                        /\ backend_lookups' = backend_lookups + 1
                        /\ IF backend.kind = "raise"
                           THEN /\ dpc' = "raised"
                                /\ d_escaped' = backend.exc
                                /\ examined' = kept
                                /\ d_results' = GatedResults(kept, config)
                                /\ UNCHANGED <<tasks, batch_size, units>>
                           ELSE /\ examined' = kept
                                /\ d_results' = GatedResults(kept, config)
                                /\ tasks' = todo
                                /\ units' = [k \in 1..Len(todo) |->
                                       [state |-> "created", outcome |-> NoUnitOutcome,
                                        exc |-> NoException]]
                                /\ IF Len(todo) = 0
                                   THEN /\ dpc' = "returned"
                                        /\ UNCHANGED batch_size
                                   ELSE /\ dpc' = "dispatching"
                                        /\ batch_size' = BatchSize(Len(todo), cpu)
                                /\ UNCHANGED d_escaped
    /\ UNCHANGED <<env, tvars, svars, fvars, qvars, bvars, backend_installed, config, batch_start, gathered,
                   ocr_invoked, overtaken>>

\* lines 167-263: everything up to the first await
DispatchCallWith(imgs) ==
    /\ dpc = "idle"
    /\ images_arg' = imgs
    /\ IF Len(imgs) = 0 \/ ~config.ocr_extracted_images
       THEN /\ dpc' = "returned"
            /\ UNCHANGED <<images, examined, d_results, tasks, batch_size,
                           units, backend_lookups, d_escaped, ocr_cfg>>
       ELSE LET kept == CheckImageMemoryLimits(DeduplicateImages(config, imgs))
                backend_name == BackendName(config)
                backend == GetOcrBackend(backend_name, backend_installed)
                todo == GatedTasks(kept, config)
            IN  /\ images' = kept
                /\ IF backend_name = NoneStr
                   THEN /\ dpc' = "returned"
                        /\ UNCHANGED <<examined, d_results, tasks, batch_size,
                                       units, backend_lookups, d_escaped, ocr_cfg>>
                   ELSE /\ ocr_cfg' = {ConfigForBackend(config)}
                        /\ backend_lookups' = backend_lookups + 1
                        /\ IF backend.kind = "raise"
                           THEN /\ dpc' = "raised"
                                /\ d_escaped' = backend.exc
                                /\ UNCHANGED <<examined, d_results, tasks,
                                               batch_size, units>>
                           ELSE /\ examined' = kept
                                /\ d_results' = GatedResults(kept, config)
                                /\ tasks' = todo
                                /\ units' = [k \in 1..Len(todo) |->
                                       [state |-> "created", outcome |-> NoUnitOutcome,
                                        exc |-> NoException]]
                                /\ IF Len(todo) = 0
                                   THEN /\ dpc' = "returned"
                                        /\ UNCHANGED batch_size
                                   ELSE /\ dpc' = "dispatching"
                                        /\ batch_size' = BatchSize(Len(todo), cpu)
                                /\ UNCHANGED d_escaped
    /\ UNCHANGED <<env, tvars, svars, fvars, qvars, bvars, backend_installed, config, batch_start, gathered,
                   ocr_invoked, overtaken>>

\* _ocr_one up to its await: the image is decoded, then the backend is called;
\* a decode error ends the unit in its except branch
UnitStart ==
    /\ dpc = "dispatching"
    /\ \E k \in CurrentBatch, decodes \in BOOLEAN :
         /\ units[k].state = "created"
         /\ IF decodes
            THEN /\ units' = [units EXCEPT ![k].state = "awaiting"]
                 /\ ocr_invoked' = ocr_invoked \cup {k}
                 /\ UNCHANGED overtaken
            ELSE /\ units' = [units EXCEPT ![k] =
                        [state |-> "done",
                         outcome |-> FailedOutcome(tasks[k], DecodeError(tasks[k])),
                         exc |-> DecodeError(tasks[k])]]
                 /\ overtaken' = (overtaken \/ EndsBeforeEarlier(k))
                 /\ UNCHANGED ocr_invoked
    /\ UNCHANGED <<env, tvars, svars, fvars, qvars, bvars, backend_installed,
                   ocr_cfg, config, dpc, images_arg, images,
                   examined, d_results, tasks, batch_size, batch_start, gathered,
                   backend_lookups, d_escaped>>

\* _ocr_one after its await: the backend returned or raised
UnitFinish ==
    /\ dpc = "dispatching"
    /\ \E k \in DOMAIN units, ok \in BOOLEAN :
         /\ units[k].state = "awaiting"
         /\ units' = [units EXCEPT ![k] =
                IF ok
                THEN [state |-> "done",
                      outcome |-> AttemptedOutcome(tasks[k], BackendResult(tasks[k])),
                      exc |-> NoException]
                ELSE [state |-> "done",
                      outcome |-> FailedOutcome(tasks[k], BackendError(tasks[k])),
                      exc |-> BackendError(tasks[k])]]
         /\ overtaken' = (overtaken \/ EndsBeforeEarlier(k))
    /\ UNCHANGED <<env, tvars, svars, fvars, qvars, bvars, backend_installed,
                   ocr_cfg, config, dpc, images_arg, images,
                   examined, d_results, tasks, batch_size, batch_start, gathered,
                   backend_lookups, ocr_invoked, d_escaped>>

\* what run_taskgroup returns for the batch: its results by position
BatchResults == [j \in 1..Cardinality(CurrentBatch) |-> units[batch_start + j - 1].outcome]

BatchDone == \A k \in CurrentBatch : units[k].state = "done"

\* run_taskgroup_batched: a batch has ended and the next one is started
BatchJoin ==
    /\ dpc = "dispatching"
    /\ BatchDone
    /\ batch_start + batch_size <= Len(tasks)
    /\ gathered' = gathered \o BatchResults
    /\ batch_start' = batch_start + batch_size
    /\ UNCHANGED <<env, tvars, svars, fvars, qvars, bvars, backend_installed,
                   ocr_cfg, config, dpc, images_arg, images,
                   examined, d_results, tasks, batch_size, units, backend_lookups,
                   ocr_invoked, overtaken, d_escaped>>

\* lines 265-267: the last batch has ended, results are extended and returned
DispatchReturn ==
    /\ dpc = "dispatching"
    /\ BatchDone
    /\ batch_start + batch_size > Len(tasks)
    /\ gathered' = gathered \o BatchResults
    /\ d_results' = ExtendResults(d_results, gathered')
    /\ dpc' = "returned"
    /\ UNCHANGED <<env, tvars, svars, fvars, qvars, bvars, backend_installed,
                   ocr_cfg, config, images_arg, images,
                   examined, tasks, batch_size, units, batch_start, backend_lookups,
                   ocr_invoked, overtaken, d_escaped>>

DispatchCall == \E imgs \in SeqsUpTo(ImagePool, MaxImages) : DispatchCallWith(imgs)

DNext == DispatchCall \/ UnitStart \/ UnitFinish \/ BatchJoin \/ DispatchReturn

-----------------------------------------------------------------------------
(* _base.py: _apply_quality_processing *)

\* an ExtractionResult as an extractor drafts it; passthrough stands for the
\* fields handed over as they are (tables, chunks, entities, keywords, ...)
DraftResult(content, metadata, imgs, ocr_results) ==
    [content |-> content, mime_type |-> PLAIN_TEXT_MIME_TYPE, metadata |-> metadata,
     passthrough |-> "tables, chunks, entities, ...", images |-> imgs,
     image_ocr_results |-> ocr_results]

NoDraft == DraftResult(<<"<None>">>, {}, <<>>, <<>>)

\* clean_extracted_text(content): the text without its noise fragments
CleanExtractedText(content) == SelectSeq(content, LAMBDA frag : frag # "<noise>")

\* calculate_quality_score(cleaned_content, metadata)
CalculateQualityScore(content, metadata) ==
    <<"score of ", Len(content), " fragments, ", Cardinality(metadata), " metadata">>

\* normalize_metadata(enhanced_metadata): the entries with a known key
NormalizeMetadata(metadata) ==
    {kv \in metadata : kv[1] \in {"title", "quality_score"}}

\* SkipsQuality as it would be if only the configuration flag were tested
SkipsQualityFlagOnly(cfg, result) == ~cfg.enable_quality_processing

\* lines 66-70: the two early returns
SkipsQuality(cfg, result) ==
    ~cfg.enable_quality_processing \/ result.content = <<>>

\* lines 72-94: the result that is built
EnhancedResult(cfg, result) ==
    LET cleaned_content == CleanExtractedText(result.content)
        quality_score == CalculateQualityScore(cleaned_content, result.metadata)
        enhanced_metadata ==
            {kv \in result.metadata : kv[1] # "quality_score"}
                \cup {<<"quality_score", quality_score>>}
        deduplicated_images ==
            IF Len(result.images) > 0 THEN DeduplicateImages(cfg, result.images) ELSE <<>>
    IN  [content |-> cleaned_content, mime_type |-> result.mime_type,
         metadata |-> NormalizeMetadata(enhanced_metadata),
         passthrough |-> result.passthrough, images |-> deduplicated_images,
         image_ocr_results |-> result.image_ocr_results]

\* the calls lines 72-94 make, in order
QualityCalls(result) ==
    <<"clean_extracted_text", "calculate_quality_score">>
        \o (IF Len(result.images) > 0 THEN <<"_deduplicate_images">> ELSE <<>>)
        \o <<"normalize_metadata", "ExtractionResult">>

\* _apply_quality_processing(result)
QualityCall ==
    /\ q_pc = "idle"
    /\ IF SkipsQuality(config, q_result)
       THEN /\ q_pc' = "returned the input"
            /\ q_out' = q_result
            /\ UNCHANGED q_calls
       ELSE /\ q_pc' = "returned a new result"
            /\ q_out' = EnhancedResult(config, q_result)
            /\ q_calls' = QualityCalls(q_result)
    /\ UNCHANGED <<env, tvars, dvars, svars, fvars, bvars, q_result>>

-----------------------------------------------------------------------------
(* _base.py: the functions of the image pipeline, applied on their own *)

\* images with equal bytes under two filenames, and two images of different
\* bytes whose checksums collide
DedupPool ==
    { ExtractedImage(Bytes("A", 20 * MiB), "png", "a.png", {}),
      ExtractedImage(Bytes("A", 20 * MiB), "png", "copy-of-a.png", {}),
      ExtractedImage(Bytes("B", 30 * MiB), "png", "b.png", {}),
      ExtractedImage(Bytes("C", 1 * MiB), "gif", "c.gif", {}),
      ExtractedImage(Bytes("c", 1 * MiB), "gif", "c2.gif", {}) }

\* self._deduplicate_images(images), and the same applied to what it returned
DedupApply ==
    /\ fn_pc = "ready"
    /\ fn_pc' = "deduplicated"
    /\ fn_out' = DeduplicateImages(config, fn_images)
    /\ fn_again' = DeduplicateImages(config, DeduplicateImages(config, fn_images))
    /\ UNCHANGED <<env, tvars, dvars, svars, qvars, bvars, fn_images>>

\* images below, at and above the single-image limit
MemoryPool ==
    { ExtractedImage(Bytes("A", 20 * MiB), "png", "a.png", {}),
      ExtractedImage(Bytes("B", 30 * MiB), "png", "b.png", {}),
      ExtractedImage(Bytes("F", 50 * MiB), "png", "f.png", {}),
      ExtractedImage(Bytes("G", 50 * MiB), "png", "g.png", {}),
      ExtractedImage(Bytes("H", 50 * MiB + 1), "png", "h.png", {}),
      ExtractedImage(Bytes("E", 60 * MiB), "png", NoneStr, {}) }

\* self._check_image_memory_limits(images), and the same applied to what it
\* returned
FilterApply ==
    /\ fn_pc = "ready"
    /\ fn_pc' = "filtered"
    /\ fn_out' = CheckImageMemoryLimits(fn_images)
    /\ fn_again' = CheckImageMemoryLimits(CheckImageMemoryLimits(fn_images))
    /\ UNCHANGED <<env, tvars, dvars, svars, qvars, bvars, fn_images>>

-----------------------------------------------------------------------------
(* sync_paddleocr.py: process_image_bytes_sync_pure *)

\* image_bytes a caller may hand over: images Pillow opens and writes as PNG,
\* an image it opens but cannot write as PNG, and bytes that are no image
ImageBytesPool ==
    {"<png bytes>", "<rgb jpeg bytes>", "<cmyk jpeg bytes>", "<text bytes>", "<no bytes>"}

\* Image.open(io.BytesIO(image_bytes)) returns
Opens(bytes) == bytes \in {"<png bytes>", "<rgb jpeg bytes>", "<cmyk jpeg bytes>"}

\* image.save(tmp_image.name, format="PNG") returns: PNG has no CMYK mode
SavesAsPng(bytes) == bytes \in {"<png bytes>", "<rgb jpeg bytes>"}

OpenError(bytes) ==
    [type |-> "UnidentifiedImageError", msg |-> <<"cannot identify image file ", bytes>>]

SaveError(bytes) ==
    [type |-> "OSError", msg |-> <<"cannot write mode CMYK as PNG">>]

\* the names NamedTemporaryFile(suffix=".png") may pick
TmpNames == {"tmp1.png", "tmp2.png", "tmp3.png"}

\* lines 179-182: the temporary file is created under a fresh name and kept
\* on close (delete=False); the bytes are opened and written to it as PNG.
\* An exception of Image.open or image.save leaves the function from inside
\* the with block, before the try of line 184 is entered.
BytesCall ==
    /\ bpc = "idle"
    /\ \E bytes \in ImageBytesPool, name \in TmpNames \ tmp_files :
         /\ b_bytes' = bytes
         /\ b_path' = name
         /\ tmp_files' = tmp_files \cup {name}
         /\ IF ~Opens(bytes)
            THEN bpc' = "raised" /\ b_outcome' = Raised(OpenError(bytes))
            ELSE IF ~SavesAsPng(bytes)
                 THEN bpc' = "raised" /\ b_outcome' = Raised(SaveError(bytes))
                 ELSE bpc' = "saved" /\ UNCHANGED b_outcome
    /\ UNCHANGED <<env, tvars, dvars, svars, fvars, qvars>>

\* lines 184-189: process_image_sync_pure returns or raises, and the finally
\* clause unlinks the file if it exists
BytesOcr ==
    /\ bpc = "saved"
    /\ \E b \in OcrBehaviours :
         LET out == ProcessImageSyncPure(b_path, paddle_installed, b) IN
         /\ b_outcome' = out
         /\ bpc' = IF out.kind = "return" THEN "returned" ELSE "raised"
    /\ tmp_files' = tmp_files \ {b_path}
    /\ UNCHANGED <<env, tvars, dvars, svars, fvars, qvars, b_bytes, b_path>>

BNext == BytesCall \/ BytesOcr

QIdle ==
    /\ q_pc = "idle"
    /\ q_result = NoDraft
    /\ q_out = NoDraft
    /\ q_calls = <<>>

BIdle ==
    /\ bpc = "idle"
    /\ b_bytes = NoneStr
    /\ b_path = NoneStr
    /\ tmp_files = {}
    /\ b_outcome = NoOutcome

-----------------------------------------------------------------------------
(* Specifications *)

\* the allow-list and bounds a dispatcher call is configured with
ExampleFormats == {"png", "jpg"}

ConfigWith(ocr_on, dedup, image_backend, general_backend, formats, mins, maxs) ==
    [ocr_extracted_images |-> ocr_on, deduplicate_images |-> dedup,
     image_ocr_backend |-> image_backend, ocr_backend |-> general_backend,
     image_ocr_formats |-> formats, image_ocr_min_dimensions |-> mins,
     image_ocr_max_dimensions |-> maxs, ocr_config |-> {}, use_cache |-> TRUE,
     enable_quality_processing |-> TRUE]

DefaultConfig ==
    ConfigWith(TRUE, TRUE, NoneStr, "tesseract", ExampleFormats, <<50, 50>>, <<4000, 4000>>)

\* the threaded batch runner
TInit ==
    /\ cpu \in 1..MaxCpu
    /\ paddle_installed \in BOOLEAN
    /\ TIdle
    /\ backend_installed = TRUE
    /\ config = DefaultConfig
    /\ DIdle
    /\ SIdle
    /\ FIdle
    /\ QIdle
    /\ BIdle

SpecThreaded == TInit /\ [][TNext]_vars

\* calls over one path given several times, max_workers unset or 1
HangCall ==
    \E paths \in SeqsUpTo({"a.png"}, MaxPaths), arg \in {{}, {1}} :
        ThreadedCallWith(paths, arg)

HNext == HangCall \/ TaskStart \/ TaskFinish \/ Collect \/ ThreadedReturn

\* the runner with the scheduling the runtime gives: a free worker takes
\* queued work, a call that ends does end, the as_completed loop takes every
\* finished future and the call returns once the loop is exhausted
SpecThreadedFair ==
    /\ TInit
    /\ [][HNext]_vars
    /\ WF_vars(TaskStart)
    /\ WF_vars(TaskFinish)
    /\ WF_vars(Collect)
    /\ WF_vars(ThreadedReturn)

\* the image OCR dispatcher
DInit ==
    /\ cpu \in 1..MaxCpu
    /\ paddle_installed = TRUE
    /\ TIdle
    /\ backend_installed \in BOOLEAN
    /\ config \in {ConfigWith(o, d, ib, gb, ExampleFormats, <<50, 50>>, <<4000, 4000>>) :
                     o \in BOOLEAN, d \in BOOLEAN, ib \in {NoneStr, "easyocr"},
                     gb \in {NoneStr, "tesseract"}}
    /\ DIdle
    /\ SIdle
    /\ FIdle
    /\ QIdle
    /\ BIdle

SpecDispatch == DInit /\ [][DNext]_vars

\* _deduplicate_images on its own, over every list of DedupPool
DedupInit ==
    /\ cpu = 1
    /\ paddle_installed = TRUE
    /\ TIdle
    /\ backend_installed = TRUE
    /\ config \in {ConfigWith(TRUE, d, NoneStr, "tesseract", ExampleFormats,
                              <<50, 50>>, <<4000, 4000>>) : d \in BOOLEAN}
    /\ DIdle
    /\ SIdle
    /\ fn_pc = "ready"
    /\ fn_images \in SeqsUpTo(DedupPool, MaxImages)
    /\ fn_out = <<>>
    /\ fn_again = <<>>
    /\ QIdle
    /\ BIdle

SpecDedup == DedupInit /\ [][DedupApply]_vars

\* _check_image_memory_limits on its own, over every list of MemoryPool
MemoryInit ==
    /\ cpu = 1
    /\ paddle_installed = TRUE
    /\ TIdle
    /\ backend_installed = TRUE
    /\ config = DefaultConfig
    /\ DIdle
    /\ SIdle
    /\ fn_pc = "ready"
    /\ fn_images \in SeqsUpTo(MemoryPool, MaxFilterImages)
    /\ fn_out = <<>>
    /\ fn_again = <<>>
    /\ QIdle
    /\ BIdle

SpecMemory == MemoryInit /\ [][FilterApply]_vars

\* self.config.ocr_config: None, or an instance of a backend's class made
\* with some fields given
OverridePool ==
    { {},
      {OcrConfigObject("TesseractConfig", [psm |-> 6, use_cache |-> FALSE])},
      {OcrConfigObject("TesseractConfig", [language |-> "deu", use_cache |-> TRUE])},
      {OcrConfigObject("EasyOCRConfig", [use_gpu |-> TRUE, use_cache |-> FALSE])},
      {OcrConfigObject("PaddleOCRConfig", [language |-> "ch"])} }

BackendNames == {"tesseract", "easyocr", "paddleocr"}

\* _process_images_with_ocr on one image of ImagePool
ConfigCall == \E img \in ImagePool : DispatchCallWith(<<img>>)

CNext == ConfigCall \/ UnitStart \/ UnitFinish \/ DispatchReturn

\* the dispatcher under every backend name, override and cache flag
CInit ==
    /\ cpu \in 1..MaxCpu
    /\ paddle_installed = TRUE
    /\ TIdle
    /\ backend_installed \in BOOLEAN
    /\ config \in {[DefaultConfig EXCEPT !.ocr_backend = name, !.ocr_config = ov,
                                         !.use_cache = uc] :
                     name \in BackendNames, ov \in OverridePool, uc \in BOOLEAN}
    /\ DIdle
    /\ SIdle
    /\ FIdle
    /\ QIdle
    /\ BIdle

SpecConfig == CInit /\ [][CNext]_vars

\* the images of a draft: byte-identical copies and one above the
\* single-image limit
QualityPool ==
    { ExtractedImage(Bytes("A", 20 * MiB), "png", "a.png", {}),
      ExtractedImage(Bytes("A", 20 * MiB), "png", "copy-of-a.png", {}),
      ExtractedImage(Bytes("E", 60 * MiB), "png", NoneStr, {}) }

\* the drafts _apply_quality_processing is given
Drafts ==
    { DraftResult(c, m, imgs, o) :
        c \in {<<>>, <<"text">>, <<"text", "<noise>">>},
        m \in {{}, {<<"title", <<"t">> >>, <<"quality_score", <<"stale">> >>}},
        imgs \in SeqsUpTo(QualityPool, MaxImages),
        o \in {<<>>, <<SkippedOutcome(ExtractedImage(Bytes("B", 30 * MiB), "bmp", "b.bmp", {}),
                                      <<"Unsupported format: ", "bmp">>)>>} }

\* _apply_quality_processing under every setting of the flags it and the
\* image pipeline read
QInit ==
    /\ cpu = 1
    /\ paddle_installed = TRUE
    /\ TIdle
    /\ backend_installed = TRUE
    /\ config \in {[DefaultConfig EXCEPT !.enable_quality_processing = q,
                                         !.ocr_extracted_images = o,
                                         !.deduplicate_images = d] :
                     q \in BOOLEAN, o \in BOOLEAN, d \in BOOLEAN}
    /\ DIdle
    /\ SIdle
    /\ FIdle
    /\ q_pc = "idle"
    /\ q_result \in Drafts
    /\ q_out = NoDraft
    /\ q_calls = <<>>
    /\ BIdle

SpecQuality == QInit /\ [][QualityCall]_vars

\* the sequential batch runner
SInit ==
    /\ cpu \in 1..MaxCpu
    /\ paddle_installed \in BOOLEAN
    /\ TIdle
    /\ backend_installed = TRUE
    /\ config = DefaultConfig
    /\ DIdle
    /\ SIdle
    /\ FIdle
    /\ QIdle
    /\ BIdle

SpecSequential == SInit /\ [][SNext]_vars

-----------------------------------------------------------------------------
(* The threaded batch runner: claims *)

\* what the task submitted for path i produced: process_image_sync_pure of
\* that path returned or raised
TaskOutcomeOfPath(i) ==
    /\ futures[i].state = "done"
    /\ \E b \in OcrBehaviours :
         futures[i].outcome = ProcessImageSyncPure(image_paths[i], paddle_installed, b)

\* the result list holds at i what task i returned, or its error-marked result
SlotHoldsOutcome(i) ==
    \/ /\ futures[i].outcome.kind = "return"
       /\ results[i] = futures[i].outcome.result
    \/ /\ futures[i].outcome.kind = "raise"
       /\ results[i].content = <<"Error: ">> \o futures[i].outcome.exc.msg

\* C1: for every non-empty list of paths and every completion order, the
\* list process_batch_images_threaded returns holds at each index i the
\* outcome of the task submitted for path i.
C1_OrderPreserved ==
    (tpc = "returned" /\ Len(image_paths) > 0) =>
        /\ Len(results) = Len(image_paths)
        /\ \A i \in 1..Len(image_paths) : TaskOutcomeOfPath(i) /\ SlotHoldsOutcome(i)

\* a returned batch of different paths whose last task was collected first
C1_Witness ==
    /\ tpc = "returned"
    /\ Len(image_paths) = MaxPaths
    /\ image_paths[1] # image_paths[MaxPaths]
    /\ collected[1] = MaxPaths
    /\ results[1] # results[MaxPaths]

\* C2: when the task for path i raises, the call does not raise, results[i]
\* is the error-marked result of that exception (content "Error: <message>",
\* metadata error = <message>) and every other slot holds exactly what its
\* task returned.
C2_FailureContained ==
    \A i \in DOMAIN futures :
        futures[i].outcome.kind = "raise" =>
            /\ tpc # "raised"
            /\ escaped = NoException
            /\ tpc = "returned" =>
                 /\ results[i] = [content |-> <<"Error: ">> \o futures[i].outcome.exc.msg,
                                  mime_type |-> "text/plain",
                                  metadata |-> {<<"error", futures[i].outcome.exc.msg>>},
                                  chunks |-> <<>>]
                 /\ \A j \in DOMAIN futures :
                      futures[j].outcome.kind = "return" =>
                          results[j] = futures[j].outcome.result

\* a returned batch in which one task raised and another returned text
C2_Witness ==
    /\ tpc = "returned"
    /\ paddle_installed
    /\ \E i, j \in DOMAIN futures :
         /\ futures[i].outcome.kind = "raise"
         /\ futures[j].outcome.kind = "return"
         /\ results[j].content = <<"text of ", image_paths[j]>>

\* C3: with max_workers unset, for every list of paths, the empty list
\* included, the call returns a list with one result per path and never
\* raises.
C3_AlwaysFullLength ==
    max_workers_arg = {} =>
        /\ tpc # "raised"
        /\ tpc = "returned" => Len(results) = Len(image_paths)

-----------------------------------------------------------------------------
(* The gating decision over formats, allow-lists and bounds *)

MaxDim == 5

GateFormats == {"png", "PNG", "gif"}

GateImages ==
    { ExtractedImage(Bytes("A", MiB), f, "x", d) :
        f \in GateFormats,
        d \in {{}} \cup {{<<w, h>>} : w \in 1..MaxDim, h \in 1..MaxDim} }

\* a call on one image
GateCall == \E img \in GateImages : DispatchCallWith(<<img>>)

GNext == GateCall \/ UnitStart \/ UnitFinish \/ DispatchReturn

GInit ==
    /\ cpu \in 1..MaxCpu
    /\ paddle_installed = TRUE
    /\ TIdle
    /\ backend_installed = TRUE
    /\ config \in {ConfigWith(TRUE, TRUE, NoneStr, "tesseract", fs, mn, mx) :
                     fs \in {{"png", "jpg"}, {"PNG", "gif"}, {}},
                     mn \in {<<2, 2>>, <<2, 3>>}, mx \in {<<4, 4>>, <<3, 4>>}}
    /\ DIdle
    /\ SIdle
    /\ FIdle
    /\ QIdle
    /\ BIdle

SpecGate == GInit /\ [][GNext]_vars

\* one call of process_image_bytes_sync_pure, in a temporary directory that
\* may hold files of other calls
BInit ==
    /\ cpu \in 1..MaxCpu
    /\ paddle_installed \in BOOLEAN
    /\ TIdle
    /\ backend_installed = TRUE
    /\ config = DefaultConfig
    /\ DIdle
    /\ SIdle
    /\ FIdle
    /\ QIdle
    /\ bpc = "idle"
    /\ b_bytes = NoneStr
    /\ b_path = NoneStr
    /\ tmp_files \in SUBSET {"tmp1.png", "tmp2.png"}
    /\ b_outcome = NoOutcome

SpecBytes == BInit /\ [][BNext]_vars

-----------------------------------------------------------------------------
(* The image OCR dispatcher: claims *)

\* the call went past backend resolution: OCR on images enabled, a backend
\* named and found
Dispatched == /\ Len(images_arg) > 0
              /\ config.ocr_extracted_images
              /\ BackendName(config) # NoneStr
              /\ backend_installed

\* the units whose _ocr_one raised inside its try block
FailedUnits == {k \in DOMAIN units : units[k].exc # NoException}

\* the outcomes of the dispatched units: the tail of the returned list
DispatchedPart == SubSeq(d_results, Len(d_results) - Len(tasks) + 1, Len(d_results))

\* the number of positions of seq that hold x
Count(seq, x) == Cardinality({i \in 1..Len(seq) : seq[i] = x})

\* C4: if exactly one of the N scheduled units fails, the call returns an
\* outcome for each of the N units: the failed one has the skip reason
\* "OCR failed: <message>", the other N-1 carry the backend's result and no
\* skip reason, and nothing escapes the call or aborts a sibling.
C4_OneFailureIsolated ==
    Cardinality(FailedUnits) = 1 =>
        /\ dpc # "raised"
        /\ d_escaped = NoException
        /\ dpc = "returned" =>
             /\ Len(d_results) >= Len(tasks)
             /\ \A k \in DOMAIN units :
                  /\ units[k].state = "done"
                  /\ DispatchedPart[k].image = tasks[k]
                  /\ IF k \in FailedUnits
                     THEN DispatchedPart[k].skipped_reason =
                              {<<"OCR failed: ">> \o units[k].exc.msg}
                     ELSE /\ DispatchedPart[k].skipped_reason = {}
                          /\ DispatchedPart[k].ocr_result =
                                 [content |-> <<"ocr of ", tasks[k].data.tag>>,
                                  mime_type |-> "text/plain", metadata |-> {}]

\* a returned call of MaxImages units whose first unit failed, in a first
\* batch shared with a sibling
C4_Witness ==
    /\ dpc = "returned"
    /\ Len(tasks) = MaxImages
    /\ batch_size > 1
    /\ FailedUnits = {1}

\* C5: with OCR on extracted images enabled and a backend resolved, the
\* call returns exactly one outcome for each image that survived
\* deduplication and the memory filter, and never more outcomes than it was
\* given images.
C5_OneOutcomePerRetained ==
    (dpc = "returned" /\ Dispatched) =>
        /\ Len(d_results) = Len(images)
        /\ Len(d_results) <= Len(images_arg)
        /\ \A i \in 1..Len(images) :
             Count([j \in 1..Len(d_results) |-> d_results[j].image], images[i])
                 = Count(images, images[i])

\* a returned call that dropped an image before gating, skipped one of the
\* retained images and dispatched another
C5_Witness ==
    /\ dpc = "returned"
    /\ Dispatched
    /\ Len(images) < Len(images_arg)
    /\ Len(tasks) > 0
    /\ Len(tasks) < Len(images)

\* the images the gating loop skipped, in the order it examined them
SkippedImages == SelectSeq(examined, LAMBDA img : GateDecision(img, config) # {})

\* C7: the returned list is every pre-dispatch skipped outcome, in the
\* order the images were examined, followed by every dispatched outcome in
\* the order the tasks were submitted, whatever the completion order.
C7_SkippedThenDispatched ==
    (dpc = "returned" /\ Dispatched) =>
        /\ Len(d_results) = Len(SkippedImages) + Len(tasks)
        /\ \A i \in 1..Len(SkippedImages) :
             /\ d_results[i].image = SkippedImages[i]
             /\ d_results[i].skipped_reason = GateDecision(SkippedImages[i], config)
        /\ \A k \in 1..Len(tasks) :
             /\ d_results[Len(SkippedImages) + k].image = tasks[k]
             /\ d_results[Len(SkippedImages) + k] = units[k].outcome

\* a returned call that examined a scheduled image, then a skipped one, then
\* a scheduled one, and in which a unit ended before an earlier one
C7_Witness ==
    /\ dpc = "returned"
    /\ Len(examined) = 3
    /\ Len(tasks) = 2
    /\ tasks[1] # tasks[2]
    /\ GateDecision(examined[2], config) # {}
    /\ overtaken

\* the units whose backend call is pending
InFlight == {k \in DOMAIN units : units[k].state = "awaiting"}

\* C8: at every moment at most min(scheduled images, CPU count) OCR
\* invocations are in flight, and no unit of a later batch of that size has
\* started while a unit of an earlier batch is not done.
C8_BoundedFanOut ==
    Len(tasks) > 0 =>
        LET bound == Min(Len(tasks), cpu) IN
        /\ Cardinality(InFlight) <= bound
        /\ \A j, k \in DOMAIN units :
             ((j - 1) \div bound < (k - 1) \div bound /\ units[k].state # "created")
                 => units[j].state = "done"

\* more units than CPUs, and as many backend calls pending as the bound
\* allows
C8_Witness ==
    /\ dpc = "dispatching"
    /\ Len(tasks) > cpu
    /\ Cardinality(InFlight) = cpu
    /\ cpu > 1

C10_NoBackendNoWork ==
    (config.image_ocr_backend = NoneStr /\ config.ocr_backend = NoneStr) =>
        /\ dpc \in {"idle", "returned"}
        /\ d_results = <<>>
        /\ d_escaped = NoException
        /\ backend_lookups = 0
        /\ examined = <<>>
        /\ tasks = <<>>
        /\ ocr_invoked = {}

\* a returned call on MaxImages images with OCR on images enabled, no
\* backend configured and the backend libraries missing
C10_Witness ==
    /\ dpc = "returned"
    /\ config.ocr_extracted_images
    /\ config.image_ocr_backend = NoneStr
    /\ config.ocr_backend = NoneStr
    /\ ~backend_installed
    /\ Len(images_arg) = MaxImages
    /\ Len(images) > 0

-----------------------------------------------------------------------------
(* The gating decision: claims *)

\* what a call on one image decided: "scheduled", or the head of its reason
ActualDecision ==
    IF Len(tasks) = 1 THEN <<"scheduled">>
    ELSE IF Len(d_results) = 1 /\ d_results[1].skipped_reason # {}
         THEN CHOOSE r \in d_results[1].skipped_reason : TRUE
         ELSE <<"none">>

\* the first-match reference on the tag fmt of the image
ReferenceDecision(img, fmt, cfg) ==
    LET known == img.dimensions # {}
        d == IF known THEN CHOOSE x \in img.dimensions : TRUE ELSE <<0, 0>>
    IN  IF fmt \notin cfg.image_ocr_formats
        THEN <<"Unsupported format: ", img.format>>
        ELSE IF known /\ (d[1] < cfg.image_ocr_min_dimensions[1]
                          \/ d[2] < cfg.image_ocr_min_dimensions[2])
        THEN <<"Too small: ", d[1], "x", d[2]>>
        ELSE IF known /\ (d[1] > cfg.image_ocr_max_dimensions[1]
                          \/ d[2] > cfg.image_ocr_max_dimensions[2])
        THEN <<"Too large: ", d[1], "x", d[2]>>
        ELSE <<"scheduled">>

\* C6 as stated: the gating decision equals the first-match reference on
\* the image's format tag as it stands.
C6_Original ==
    (dpc # "idle" /\ Len(images_arg) = 1) =>
        ActualDecision = ReferenceDecision(images_arg[1], images_arg[1].format, config)

\* C6 (amended): the gating decision equals the first-match reference on
\* the lower-cased format tag: lower-cased tag not in the allow-list gives a
\* skip naming the tag as it stands; else known dimensions under a minimum
\* give "Too small" (also when the other dimension is above its maximum);
\* else known dimensions above a maximum give "Too large"; else, unknown
\* dimensions and dimensions equal to a bound included, the image is
\* scheduled.
C6_FirstMatchGating ==
    (dpc # "idle" /\ Len(images_arg) = 1) =>
        ActualDecision =
            ReferenceDecision(images_arg[1],
                              IF images_arg[1].format = "PNG" THEN "png"
                              ELSE images_arg[1].format,
                              config)

\* an image of an allowed format, narrower than the minimum width and
\* taller than the maximum height, skipped as too small
C6_Witness ==
    /\ dpc = "returned"
    /\ Len(images_arg) = 1
    /\ images_arg[1].format = "PNG"
    /\ "png" \in config.image_ocr_formats
    /\ images_arg[1].dimensions = {<<1, MaxDim>>}
    /\ d_results[1].skipped_reason = {<<"Too small: ", 1, "x", MaxDim>>}


-----------------------------------------------------------------------------
(* The image OCR dispatcher: systemic failure *)

\* the call reaches line 206: images given, OCR of images on, a backend named
LookupReached ==
    /\ dpc # "idle"
    /\ Len(images_arg) > 0
    /\ config.ocr_extracted_images
    /\ BackendName(config) # NoneStr

\* C11: when get_ocr_backend raises (the backend's library is missing), the
\* failure leaves _process_images_with_ocr before any image has been gated
\* and before any OCR unit has been created or started, and no outcome list
\* is returned.
C11_LookupFailureEscapes ==
    (LookupReached /\ ~backend_installed) =>
        /\ dpc = "raised"
        /\ d_escaped = GetOcrBackend(BackendName(config), FALSE).exc
        /\ examined = <<>>
        /\ d_results = <<>>
        /\ tasks = <<>>
        /\ units = <<>>
        /\ ocr_invoked = {}

\* the lookup fails in a call whose images would have given both a skipped
\* outcome and an OCR task
C11_Witness ==
    /\ LookupReached
    /\ ~backend_installed
    /\ dpc = "raised"
    /\ Len(GatedResults(images, config)) > 0
    /\ Len(GatedTasks(images, config)) > 0

-----------------------------------------------------------------------------
(* The threaded batch runner: systemic failure *)

\* C12: when the PaddleOCR library is missing, a call of
\* process_batch_images_threaded over at least one path raises the
\* missing-dependency failure out of the call before any per-path result is
\* produced: no slot of the result list is ever written and the call never
\* returns a list.  (pool_size > 0: the pool itself could be built.)
C12_MissingLibraryRaises ==
    (~paddle_installed /\ pool_size > 0 /\ Len(image_paths) > 0) =>
        /\ tpc # "returned"
        /\ \A i \in DOMAIN results : results[i] = NoneResult

-----------------------------------------------------------------------------
(* The sequential batch runner: claims *)

\* C13: in process_batch_images_sync_pure, with the library present, a
\* failure of the OCR call for one path is contained at that path: the call
\* never raises, and when it has returned it holds one result per path.
C13_SequentialFailureContained ==
    (paddle_installed /\ spc # "idle") =>
        /\ spc # "raised"
        /\ (spc = "returned" => Len(s_results) = Len(s_paths))

-----------------------------------------------------------------------------
(* The threaded batch runner: raising and hanging tasks *)

IsQueued(f) == f \in DOMAIN futures /\ futures[f].state = "queued"

IsDone(f) == f \in DOMAIN futures /\ futures[f].state = "done"

Recorded(f) ==
    /\ IsDone(f)
    /\ \E j \in DOMAIN collected : collected[j] = f
    /\ results[f] = CollectedResult(futures[f].outcome)

\* every worker of the pool is inside a call that never returns
AllWorkersHung == tpc = "running" /\ NumHung = pool_size

\* C14 as stated: whatever its siblings do, raise or never return, every
\* submitted task is eventually executed, and a task whose OCR call has
\* ended has its result recorded at its index.
C14_Original ==
    /\ \A f \in 1..MaxPaths : IsQueued(f) ~> ~IsQueued(f)
    /\ \A f \in 1..MaxPaths : IsDone(f) ~> Recorded(f)

\* C14, amended: a task that raises never cancels or blocks a sibling, and a
\* task that never returns holds one worker and nothing else: every submitted
\* task is eventually executed unless every worker of the pool is held by a
\* call that never returns, and a task whose OCR call has ended has its
\* result recorded at its index.
C14_SiblingsProceed ==
    /\ \A f \in 1..MaxPaths : IsQueued(f) ~> (~IsQueued(f) \/ AllWorkersHung)
    /\ \A f \in 1..MaxPaths : IsDone(f) ~> Recorded(f)

\* one task never returns, a later one raised, a third returned, and both
\* of these are recorded at their indices
C14_Witness ==
    /\ tpc = "running"
    /\ \E f, g, h \in DOMAIN futures :
         /\ f < g /\ f < h
         /\ futures[f].state = "hung"
         /\ Recorded(g) /\ futures[g].outcome.kind = "raise"
         /\ Recorded(h) /\ futures[h].outcome.kind = "return"

-----------------------------------------------------------------------------
(* Deduplication: claims *)

\* the positions whose checksum differs from that of every earlier position
FirstOfChecksum(imgs) ==
    {i \in DOMAIN imgs : \A j \in 1..(i - 1) : Crc32(imgs[j].data) # Crc32(imgs[i].data)}

\* the subsequence of seq at the positions in K
RECURSIVE SubseqAt(_, _)
SubseqAt(seq, K) ==
    IF K = {} THEN <<>>
    ELSE LET m == CHOOSE k \in K : \A l \in K : l <= k
         IN  Append(SubseqAt(seq, K \ {m}), seq[m])

\* the positions of the images byte-identical to the one at position i
SameBytes(imgs, i) == {j \in DOMAIN imgs : imgs[j].data = imgs[i].data}

\* C15 as stated: with deduplication enabled, the output is the subsequence
\* at the positions of new checksums, and of byte-identical images exactly
\* one is in the output, the first by input order; empty input gives empty
\* output.
C15_Original ==
    (fn_pc = "deduplicated" /\ config.deduplicate_images) =>
        /\ fn_out = SubseqAt(fn_images, FirstOfChecksum(fn_images))
        /\ \A i \in DOMAIN fn_images :
             LET same == SameBytes(fn_images, i)
                 first == CHOOSE j \in same : \A l \in same : j <= l
                 out == {k \in DOMAIN fn_out : fn_out[k].data = fn_images[i].data}
             IN  /\ Cardinality(out) = 1
                 /\ \A k \in out : fn_out[k] = fn_images[first]
        /\ (fn_images = <<>> => fn_out = <<>>)

\* C15, amended: with deduplication enabled, _deduplicate_images returns the
\* subsequence of its input at the positions whose checksum differs from the
\* checksum of every earlier image; of byte-identical images the output holds
\* at most one, the first by input order with its filename, and it holds
\* that one exactly when no earlier image of other bytes has the same
\* checksum; empty input gives empty output.
C15_FirstOccurrenceKept ==
    (fn_pc = "deduplicated" /\ config.deduplicate_images) =>
        /\ fn_out = SubseqAt(fn_images, FirstOfChecksum(fn_images))
        /\ \A i \in DOMAIN fn_images :
             LET same == SameBytes(fn_images, i)
                 first == CHOOSE j \in same : \A l \in same : j <= l
                 out == {k \in DOMAIN fn_out : fn_out[k].data = fn_images[i].data}
             IN  /\ Cardinality(out) <= 1
                 /\ \A k \in out : fn_out[k] = fn_images[first]
                 /\ (Cardinality(out) = 1 <=>
                       \A j \in 1..(first - 1) :
                           Crc32(fn_images[j].data) # Crc32(fn_images[first].data))
        /\ (fn_images = <<>> => fn_out = <<>>)

\* two byte-identical images under different filenames, the copy first, and
\* another image between them: the copy and the other image are kept
C15_Witness ==
    /\ fn_pc = "deduplicated"
    /\ config.deduplicate_images
    /\ Len(fn_images) = 3
    /\ fn_images[1].filename = "copy-of-a.png"
    /\ fn_images[2].filename = "b.png"
    /\ fn_images[3].filename = "a.png"
    /\ fn_out = <<fn_images[1], fn_images[2]>>

\* C16: deduplication is idempotent: _deduplicate_images applied to its own
\* output returns that output, element for element.
C16_DedupIdempotent ==
    fn_pc = "deduplicated" => fn_again = fn_out

\* three images of one checksum, two of them of different bytes: one is left
\* after the first application and after the second
C16_Witness ==
    /\ fn_pc = "deduplicated"
    /\ config.deduplicate_images
    /\ Len(fn_images) = 3
    /\ fn_images[1].data.tag = "C"
    /\ fn_images[2].data.tag = "c"
    /\ fn_images[3].data.tag = "C"
    /\ fn_out = <<fn_images[1]>>
    /\ fn_again = fn_out

-----------------------------------------------------------------------------
(* The memory filter: claims *)

\* C17: for every input list, the output of _check_image_memory_limits has
\* aggregate byte size at most 100 MiB and holds no image of more than
\* 50 MiB, in the under-limit and in the over-limit branch.
C17_OutputWithinLimits ==
    fn_pc = "filtered" =>
        /\ TotalSize(fn_out) <= 100 * 1024 * 1024
        /\ \A k \in DOMAIN fn_out : fn_out[k].data.len <= 50 * 1024 * 1024

\* an input of 120 MiB with every image within the single-image limit: one
\* of the 50 MiB images is left out, 70 MiB are kept
C17_Witness ==
    /\ fn_pc = "filtered"
    /\ TotalSize(fn_images) = 120 * 1024 * 1024
    /\ \A k \in DOMAIN fn_images : fn_images[k].data.len <= 50 * 1024 * 1024
    /\ Len(fn_out) = 2
    /\ TotalSize(fn_out) = 70 * 1024 * 1024

\* C18: when the total size of the input is at most 100 MiB (exactly 100 MiB
\* included), the output is the input without the images of more than 50 MiB,
\* an image of exactly 50 MiB kept, in original order.
C18_UnderLimitDropsOversizeOnly ==
    (fn_pc = "filtered" /\ TotalSize(fn_images) <= 100 * 1024 * 1024) =>
        fn_out = SelectSeq(fn_images, LAMBDA img : img.data.len <= 50 * 1024 * 1024)

\* a total of exactly 100 MiB, largest image first and exactly at the
\* single-image limit: everything is kept as given
C18_Witness ==
    /\ fn_pc = "filtered"
    /\ Len(fn_images) = 3
    /\ TotalSize(fn_images) = 100 * 1024 * 1024
    /\ fn_images[1].data.len = 50 * 1024 * 1024
    /\ fn_images[2].data.len = 30 * 1024 * 1024
    /\ fn_out = fn_images

-----------------------------------------------------------------------------
(* The configuration resolver: claims *)

\* the configuration class of a backend name
ClassOfBackend(name) ==
    CASE name = "tesseract" -> "TesseractConfig"
      [] name = "easyocr" -> "EasyOCRConfig"
      [] name = "paddleocr" -> "PaddleOCRConfig"

\* the override is an instance of the requested backend's class
Matching(o) == o.class = ClassOfBackend(BackendName(config))

\* C19: whatever the backend name, the override (none, of the backend's
\* class, of another class) and the document-level cache flag, the resolved
\* configuration exists once line 206 is reached and its use_cache is the
\* document-level flag, also when the override gives use_cache another value;
\* for tesseract without override and cache flag False, use_cache is False
\* and every other field has the tesseract default.
C19_CacheFlagFromDocument ==
    /\ LookupReached => ocr_cfg # {}
    /\ \A c \in ocr_cfg :
         /\ c.use_cache = config.use_cache
         /\ (BackendName(config) = "tesseract" /\ config.ocr_config = {} /\ ~config.use_cache) =>
               /\ DOMAIN c = DOMAIN TesseractDefaults
               /\ \A f \in DOMAIN c \ {"use_cache"} : c[f] = TesseractDefaults[f]
               /\ c.use_cache = FALSE

\* the override is of the backend's class and gives use_cache TRUE, the
\* document-level flag is False, and the resolved use_cache is False
C19_Witness ==
    /\ dpc = "returned"
    /\ ~config.use_cache
    /\ \E o \in config.ocr_config :
         /\ Matching(o)
         /\ "use_cache" \in DOMAIN o.given
         /\ o.given.use_cache
    /\ \E c \in ocr_cfg : ~c.use_cache

\* C20 as stated: an override of the requested backend's class replaces the
\* defaults in every field it gives, the fields it does not give keeping the
\* backend's defaults (the cache flag apart); an override of another class is
\* not merged and raises nothing, the result being the backend's defaults
\* plus the cache flag.
C20_Original ==
    \A c \in ocr_cfg, o \in config.ocr_config :
        LET defaults == ClassDefaults(ClassOfBackend(BackendName(config))) IN
        /\ Matching(o) =>
             /\ DOMAIN c = DOMAIN defaults
             /\ \A f \in DOMAIN o.given : c[f] = o.given[f]
             /\ \A f \in DOMAIN c \ (DOMAIN o.given \cup {"use_cache"}) : c[f] = defaults[f]
        /\ ~Matching(o) =>
             /\ c = SetItem(defaults, "use_cache", config.use_cache)
             /\ (backend_installed => dpc # "raised")

\* C20, amended: an override of the requested backend's class replaces the
\* defaults in every field it gives other than use_cache, the fields it does
\* not give keep the backend's defaults, and use_cache is the document-level
\* flag whatever the override gives; an override of another class is not
\* merged and raises nothing, the result being the backend's defaults plus
\* the cache flag.
C20_OverrideMergedByClass ==
    \A c \in ocr_cfg, o \in config.ocr_config :
        LET defaults == ClassDefaults(ClassOfBackend(BackendName(config))) IN
        /\ Matching(o) =>
             /\ DOMAIN c = DOMAIN defaults
             /\ \A f \in DOMAIN o.given \ {"use_cache"} : c[f] = o.given[f]
             /\ \A f \in DOMAIN c \ (DOMAIN o.given \cup {"use_cache"}) : c[f] = defaults[f]
             /\ c.use_cache = config.use_cache
        /\ ~Matching(o) =>
             /\ c = SetItem(defaults, "use_cache", config.use_cache)
             /\ (backend_installed => dpc # "raised")

\* an EasyOCR override under backend tesseract: the call has returned an
\* outcome and the resolved configuration has the tesseract fields only
C20_Witness ==
    /\ dpc = "returned"
    /\ Len(d_results) = 1
    /\ BackendName(config) = "tesseract"
    /\ \E o \in config.ocr_config : o.class = "EasyOCRConfig"
    /\ \E c \in ocr_cfg : DOMAIN c = {"language", "psm", "use_cache"} /\ c.psm = 3

-----------------------------------------------------------------------------
(* Quality processing: claims *)

\* C21: if quality processing is disabled or the draft's content is empty,
\* _apply_quality_processing returns the input result itself, equal to what
\* it was given, and has called nothing: no cleaning, no scoring, no
\* deduplication, no construction of a result.
C21_DisabledOrEmptyReturnsInput ==
    (q_pc # "idle" /\ (~config.enable_quality_processing \/ q_result.content = <<>>)) =>
        /\ q_pc = "returned the input"
        /\ q_out = q_result
        /\ q_calls = <<>>

\* quality processing is enabled, the content is empty and the draft holds
\* duplicate images: the draft comes back with its duplicates
C21_Witness ==
    /\ q_pc = "returned the input"
    /\ config.enable_quality_processing
    /\ config.deduplicate_images
    /\ q_result.content = <<>>
    /\ Len(q_result.images) = 2
    /\ q_result.images[1].data = q_result.images[2].data
    /\ q_out.images = q_result.images

\* C22: with quality processing enabled and non-empty content, the returned
\* result is a new one; when OCR on extracted images is enabled its images
\* have passed deduplication and then the memory filter and its
\* image_ocr_results holds one outcome per retained image; when it is
\* disabled the images are only deduplicated and the OCR results are those
\* of the input.
C22_ImagePipelineApplied ==
    (q_pc # "idle" /\ config.enable_quality_processing /\ q_result.content # <<>>) =>
        /\ q_pc = "returned a new result"
        /\ IF config.ocr_extracted_images
           THEN /\ q_out.images =
                       CheckImageMemoryLimits(DeduplicateImages(config, q_result.images))
                /\ Len(q_out.image_ocr_results) = Len(q_out.images)
                /\ \A k \in DOMAIN q_out.images :
                       q_out.image_ocr_results[k].image = q_out.images[k]
           ELSE /\ q_out.images = DeduplicateImages(config, q_result.images)
                /\ q_out.image_ocr_results = q_result.image_ocr_results

-----------------------------------------------------------------------------
(* The memory filter, over-limit branch: claims *)

\* the sum of the sizes of seq at the positions in K
RECURSIVE SizeAt(_, _)
SizeAt(seq, K) ==
    IF K = {} THEN 0
    ELSE LET m == CHOOSE k \in K : TRUE IN seq[m].data.len + SizeAt(seq, K \ {m})

\* the positions among the first n of seq that smallest-first greedy accepts:
\* position n is accepted iff its image is within the single-image limit and
\* fits on top of what was accepted before it
RECURSIVE AcceptedUpTo(_, _)
AcceptedUpTo(seq, n) ==
    IF n = 0 THEN {}
    ELSE LET before == AcceptedUpTo(seq, n - 1) IN
         IF /\ seq[n].data.len <= 50 * 1024 * 1024
            /\ SizeAt(seq, before) + seq[n].data.len <= 100 * 1024 * 1024
         THEN before \cup {n}
         ELSE before

Ascending(seq) == \A i, j \in DOMAIN seq : i < j => seq[i].data.len <= seq[j].data.len

\* C23: when the total size of the input exceeds 100 MiB, the output of
\* _check_image_memory_limits is what smallest-first greedy accepts: over the
\* images in ascending size order, an image is kept iff it is at most 50 MiB
\* and the running total of the kept images plus its size is at most 100 MiB.
C23_OverLimitGreedy ==
    (fn_pc = "filtered" /\ TotalSize(fn_images) > 100 * 1024 * 1024) =>
        LET sorted == SortedBySize(fn_images) IN
        /\ Ascending(sorted)
        /\ fn_out = SubseqAt(sorted, AcceptedUpTo(sorted, Len(sorted)))

\* images of 60, 30 and 20 MiB: the 60 MiB one is dropped, the two others
\* are kept
C23_Witness ==
    /\ fn_pc = "filtered"
    /\ Len(fn_images) = 3
    /\ fn_images[1].data.len = 60 * 1024 * 1024
    /\ fn_images[2].data.len = 30 * 1024 * 1024
    /\ fn_images[3].data.len = 20 * 1024 * 1024
    /\ Len(fn_out) = 2
    /\ \A k \in DOMAIN fn_out : fn_out[k] \in {fn_images[2], fn_images[3]}

-----------------------------------------------------------------------------
(* The dispatcher's outcomes: claims *)

\* every outcome the dispatcher has produced so far: the gated ones and the
\* returned ones in results, and those of the units that have ended
ProducedOutcomes ==
    {d_results[i] : i \in DOMAIN d_results}
        \cup {units[k].outcome : k \in {j \in DOMAIN units : units[j].state = "done"}}

HasSkippedShape(o) ==
    /\ o.skipped_reason # {}
    /\ \A reason \in o.skipped_reason : reason # <<>>
    /\ o.ocr_result.content = <<>>
    /\ o.ocr_result.mime_type = "text/plain"
    /\ o.processing_time = {}

HasAttemptedShape(o) ==
    /\ o.skipped_reason = {}
    /\ o.ocr_result = BackendResult(o.image)
    /\ o.processing_time # {}

\* C24: every outcome produced by _process_images_with_ocr has exactly one of
\* two shapes: skipped (a non-empty skip reason, the placeholder result with
\* empty content and mime type text/plain, no processing time) or attempted
\* (no skip reason, the result the backend returned, a processing time).
C24_OutcomeShapes ==
    \A o \in ProducedOutcomes :
        /\ HasSkippedShape(o) \/ HasAttemptedShape(o)
        /\ ~(HasSkippedShape(o) /\ HasAttemptedShape(o))
        /\ ~(o.skipped_reason # {} /\ o.ocr_result.content # <<>>)

\* a returned call whose results hold a gated outcome, a failed one and an
\* attempted one
C24_Witness ==
    /\ dpc = "returned"
    /\ \E i, j, k \in DOMAIN d_results :
         /\ HasSkippedShape(d_results[i])
         /\ \E reason \in d_results[i].skipped_reason : reason[1] # "OCR failed: "
         /\ HasSkippedShape(d_results[j])
         /\ \E reason \in d_results[j].skipped_reason : reason[1] = "OCR failed: "
         /\ HasAttemptedShape(d_results[k])

-----------------------------------------------------------------------------
(* The threaded runner's pool and result array: claims *)

\* the futures whose OCR call is executing in a worker thread
Executing == {f \in DOMAIN futures : futures[f].state \in {"running", "hung"}}

\* C25: in process_batch_images_threaded at most pool-size OCR calls execute
\* at any moment, the pool size being min(number of paths, CPU count) when
\* max_workers is unset and the caller's max_workers otherwise; the other
\* tasks wait in the queue.
C25_PoolBound ==
    tpc \in {"running", "returned"} =>
        /\ max_workers_arg = {} =>
             pool_size = IF Len(image_paths) <= cpu THEN Len(image_paths) ELSE cpu
        /\ max_workers_arg # {} => max_workers_arg = {pool_size}
        /\ Cardinality(Executing) <= pool_size
        /\ \A f \in DOMAIN futures : f \notin Executing =>
               futures[f].state \in {"queued", "done"}

\* with max_workers unset, two calls execute on a pool of two while a third
\* task waits
C25_Witness ==
    /\ tpc = "running"
    /\ max_workers_arg = {}
    /\ pool_size = 2
    /\ Cardinality(Executing) = 2
    /\ \E f \in DOMAIN futures : futures[f].state = "queued"

\* the indices whose task has been taken from as_completed
CollectedSet == {collected[j] : j \in DOMAIN collected}

\* slot i holds the placeholder until task i is collected and the outcome of
\* task i from then on
SlotState(i) ==
    IF i \in CollectedSet
    THEN /\ futures[i].state = "done"
         /\ SlotHoldsOutcome(i)
         /\ results[i] # NoneResult
    ELSE results[i] = NoneResult

\* C26: each slot of the result array of process_batch_images_threaded is
\* written exactly once, with the outcome of the task submitted for that
\* index: a step writes at most one slot, the slot written held the
\* placeholder, a written slot never changes again, and a task's step changes
\* nothing but that task's own future.
C26_SlotsWrittenOnce ==
    /\ [](\A i \in DOMAIN results : SlotState(i))
    /\ [](\A j, k \in DOMAIN collected : j # k => collected[j] # collected[k])
    /\ [][\A i \in DOMAIN results :
            /\ results[i] # NoneResult => results'[i] = results[i]
            /\ results'[i] # results[i] =>
                 /\ \A k \in DOMAIN results : k # i => results'[k] = results[k]
                 /\ futures[i].state = "done"
                 /\ futures' = futures]_vars
    /\ [][\A f \in DOMAIN futures :
            futures'[f] # futures[f] =>
                /\ results' = results
                /\ \A g \in DOMAIN futures : g # f => futures'[g] = futures[g]]_vars

\* a returned batch with the same path at indices 1 and 2 whose two tasks
\* ended differently, the second collected before the first
C26_Witness ==
    /\ tpc = "returned"
    /\ Len(image_paths) = MaxPaths
    /\ image_paths[1] = image_paths[2]
    /\ results[1] # results[2]
    /\ \E j, k \in DOMAIN collected : j < k /\ collected[j] = 2 /\ collected[k] = 1

-----------------------------------------------------------------------------
(* The memory filter: order and count of the kept images *)

\* out is seq restricted to some set of its positions, in the order of seq
IsSubsequenceOf(out, seq) == \E K \in SUBSET DOMAIN seq : out = SubseqAt(seq, K)

\* out lists images of seq at distinct positions, by ascending size and, among
\* images of one size, by ascending position
IsSizeOrderedSelectionOf(out, seq) ==
    \E pos \in [DOMAIN out -> DOMAIN seq] :
        /\ \A k \in DOMAIN out : out[k] = seq[pos[k]]
        /\ \A k, l \in DOMAIN out :
             k < l => \/ seq[pos[k]].data.len < seq[pos[l]].data.len
                      \/ /\ seq[pos[k]].data.len = seq[pos[l]].data.len
                         /\ pos[k] < pos[l]

\* C27 as stated: in both branches the kept images appear in the output in
\* the same relative order as in the input.
C27_Original ==
    fn_pc = "filtered" => IsSubsequenceOf(fn_out, fn_images)

\* C27: the images kept by _check_image_memory_limits are images of the input
\* at distinct positions; when the total size is at most 100 MiB they appear
\* in input order, and when it exceeds 100 MiB they appear by ascending size,
\* images of equal size in input order.
C27_OrderByBranch ==
    fn_pc = "filtered" =>
        IF TotalSize(fn_images) <= 100 * 1024 * 1024
        THEN IsSubsequenceOf(fn_out, fn_images)
        ELSE IsSizeOrderedSelectionOf(fn_out, fn_images)

\* 30, 60 and 20 MiB in this order: the output is the 20 MiB image followed by
\* the 30 MiB one
C27_Witness ==
    /\ fn_pc = "filtered"
    /\ Len(fn_images) = 3
    /\ fn_images[1].data.len = 30 * 1024 * 1024
    /\ fn_images[2].data.len = 60 * 1024 * 1024
    /\ fn_images[3].data.len = 20 * 1024 * 1024
    /\ fn_out = <<fn_images[3], fn_images[1]>>

\* the sets of input positions whose images satisfy both limits together
WithinLimits(seq) ==
    {K \in SUBSET DOMAIN seq :
        /\ \A k \in K : seq[k].data.len <= 50 * 1024 * 1024
        /\ SizeAt(seq, K) <= 100 * 1024 * 1024}

Occurrences(seq, x) == Cardinality({j \in DOMAIN seq : seq[j] = x})

\* C28: no sub-collection of the input that satisfies both limits holds more
\* images than the output of _check_image_memory_limits, and when the total
\* size exceeds 100 MiB every image of the input strictly smaller than a kept
\* one is kept too.
C28_KeepsAsManyAsFit ==
    fn_pc = "filtered" =>
        /\ \A K \in WithinLimits(fn_images) : Cardinality(K) <= Len(fn_out)
        /\ TotalSize(fn_images) > 100 * 1024 * 1024 =>
             \A k \in DOMAIN fn_out, i \in DOMAIN fn_images :
                 fn_images[i].data.len < fn_out[k].data.len =>
                     Occurrences(fn_out, fn_images[i]) = Occurrences(fn_images, fn_images[i])

\* four images of 150 MiB given largest first: the three smallest are kept,
\* 100 MiB in all, where the two largest alone would fill the limit as well
C28_Witness ==
    /\ fn_pc = "filtered"
    /\ Len(fn_images) = 4
    /\ TotalSize(fn_images) = 150 * 1024 * 1024
    /\ fn_images[1].data.len = 50 * 1024 * 1024
    /\ fn_images[2].data.len = 50 * 1024 * 1024
    /\ Len(fn_out) = 3
    /\ TotalSize(fn_out) = 100 * 1024 * 1024
    /\ {1, 2} \in WithinLimits(fn_images)

-----------------------------------------------------------------------------
(* The threaded runner: termination *)

\* the call has returned with every task ended and every slot filled
ReturnedComplete ==
    /\ tpc = "returned"
    /\ \A f \in DOMAIN futures : futures[f].state = "done"
    /\ Len(results) = Len(image_paths)
    /\ \A i \in DOMAIN results :
         /\ results[i] # NoneResult
         /\ \/ futures[i].outcome.kind = "return" /\ results[i] = futures[i].outcome.result
            \/ futures[i].outcome.kind = "raise" /\ <<"error", futures[i].outcome.exc.msg>> \in results[i].metadata

\* C29: a call of process_batch_images_threaded that got its pool (size at
\* least 1) and in which no OCR call stays out forever eventually returns; it
\* returns only after every submitted task has ended, and then no slot of the
\* result list holds the initial placeholder.
C29_EventuallyReturnsComplete ==
    /\ (tpc = "running") ~> (tpc = "returned" \/ NumHung > 0)
    /\ [](tpc = "returned" => ReturnedComplete)
    /\ [](tpc = "running" => pool_size >= 1)

\* a returned call of MaxPaths tasks on a pool of one worker, of which one
\* raised and another returned text
C29_Witness ==
    /\ ReturnedComplete
    /\ pool_size = 1
    /\ Len(futures) = MaxPaths
    /\ \E f, g \in DOMAIN futures :
         /\ futures[f].outcome.kind = "raise"
         /\ futures[g].outcome.kind = "return"
         /\ results[g].content # <<>>

-----------------------------------------------------------------------------
(* process_image_bytes_sync_pure: claims *)

\* C30: after process_image_bytes_sync_pure has returned or raised, the
\* temporary file it created no longer exists: after successful OCR, after an
\* OCR failure, and after bytes that cannot be decoded or saved.
C30_TempFileRemoved ==
    bpc \in {"returned", "raised"} => b_path \notin tmp_files

=============================================================================
